---- MODULE Spec2Model ----
(***************************************************************************)
(* Model of the Telegram bot of this repository: the users table           *)
(* (database.py), the broadcast dispatcher send_broadcast (utils.py) and   *)
(* the update handlers that drive them (bot.py).                           *)
(*                                                                         *)
(* One handler step is one action.  A handler is a coroutine: it runs      *)
(* without interruption up to its next await, so the actions of a          *)
(* broadcast job are cut at its awaits (the gather of a chunk, the sleep   *)
(* after a chunk, the edit of the report message).                         *)
(***************************************************************************)
EXTENDS Integers, Sequences, FiniteSets, TLC

(* Bounds of the model. *)
NumUsers == 3
\* config.py:75 sets 30; the model runs the same chunking with a small chunk.
MAX_BROADCAST_CHUNK == 2
\* Confirmation keyboards that may be on screen at once.
MaxKeyboards == 1
\* The clock readings a ban can be dated with.
MaxTime == 2
\* The longest list of ids in the ADMIN_IDS environment variable.
MaxAdmins == 2
\* config.py:72 sets 10; the model keeps the same rule with fewer backups.
MAX_BACKUPS == 2
\* The stickers list of a row is followed up to this length.
MaxStickers == 1

(* config.py:9  OWNER_ID, the identity of the owner among the user ids. *)
OWNER_ID == 1

UserIds == 1..NumUsers

(* config.py:12-17  the list ADMIN_IDS as the import of config.py leaves   *)
(* it: the ids of the environment variable, then the owner appended.       *)
LoadAdminIds(env_ids) == Append(env_ids, OWNER_ID)

VARIABLES
    ADMIN_IDS,   \* config.py:14-17  the module-level list of admin ids
    users,       \* the users table: user_id -> row, for the ids that have a row
    keyboards,   \* confirmation messages whose Confirm/Cancel buttons are shown
    job,         \* the broadcast job (button_callback + send_broadcast)
    lastServed,  \* the update a user-facing handler answered last, and whose
    backups,     \* the number of rows of the backups table
    jobs,        \* two calls of send_broadcast that run at the same time
    lastCommand  \* the /ban or /unban handled last: its reply, its notification

vars ==
    <<ADMIN_IDS, users, keyboards, job, lastServed, backups, jobs, lastCommand>>

(* Mutant: only the owner passes, the configured ids are ignored. *)
is_admin_owner_only(user_id) == user_id = OWNER_ID

(* utils.py:11-13  return user_id in ADMIN_IDS *)
is_admin(user_id) == \E i \in DOMAIN ADMIN_IDS : ADMIN_IDS[i] = user_id

(***************************************************************************)
(* database.py: the users table                                            *)
(***************************************************************************)

(* database.py:34-36  the columns ban_reason, banned_by and ban_date have  *)
(* no default: they are NULL until a ban writes them.  NULL is written     *)
(* "NULL" in the text column and 0 in the two others (no id and no clock   *)
(* reading is 0).                                                          *)
NULL_TEXT == "NULL"
NULL_INT == 0

(* bot.py:196  the reason of /ban <user_id> [reason] *)
DefaultReason == "No reason provided"
Reasons == {DefaultReason, "spam"}
(* database.py:223  datetime.now(...) *)
Times == 1..MaxTime

(* bot.py:55-63  the names Telegram gives for the sender of an update; a   *)
(* user may change them between two updates.                               *)
DefaultProfile ==
    [username |-> "ann", first_name |-> "Ann", last_name |-> "Lee"]
Profiles ==
    {DefaultProfile,
     [username |-> "annie", first_name |-> "Annie", last_name |-> "Ray"]}

(* bot.py:55-63  user_data, the dict start hands to add_user *)
UserData(user_id, profile) ==
    [user_id |-> user_id, username |-> profile.username,
     first_name |-> profile.first_name, last_name |-> profile.last_name]

(* database.py:93-106  the row INSERTed for a new user: join_date and      *)
(* last_seen are the time of the insert, stickers takes its DEFAULT '[]'   *)
(* (the column holds a list; the model keeps its length), is_banned its    *)
(* DEFAULT FALSE (database.py:32-33).                                      *)
NewRow(user_data, now) ==
    [user_id |-> user_data.user_id, username |-> user_data.username,
     first_name |-> user_data.first_name, last_name |-> user_data.last_name,
     join_date |-> now, last_seen |-> now, stickers |-> 0,
     is_banned |-> FALSE, ban_reason |-> NULL_TEXT,
     banned_by |-> NULL_INT, ban_date |-> NULL_INT]

(* Mutant: the row of a user who comes back is written anew (INSERT OR     *)
(* REPLACE), which resets every column the insert does not name.           *)
add_user_replace(tbl, user_data, now) ==
    [u \in (DOMAIN tbl) \cup {user_data.user_id} |->
        IF u = user_data.user_id THEN NewRow(user_data, now) ELSE tbl[u]]

(* database.py:69-113  add_user: INSERT when the id has no row, otherwise  *)
(* UPDATE of username, first_name, last_name and last_seen only.           *)
add_user(tbl, user_data, now) ==
    IF user_data.user_id \in DOMAIN tbl
    THEN [tbl EXCEPT ![user_data.user_id] =
            [@ EXCEPT !.username = user_data.username,
                      !.first_name = user_data.first_name,
                      !.last_name = user_data.last_name,
                      !.last_seen = now]]
    ELSE [u \in (DOMAIN tbl) \cup {user_data.user_id} |->
            IF u = user_data.user_id THEN NewRow(user_data, now) ELSE tbl[u]]

(* database.py:155-188, bot.py:357-368  update_user as handle_sticker      *)
(* calls it: the stickers list with one sticker appended, and last_seen;   *)
(* UPDATE ... WHERE user_id = ?, which changes nothing without a row.      *)
update_user(tbl, user_id, stickers, now) ==
    [u \in DOMAIN tbl |->
        IF u = user_id
        THEN [tbl[u] EXCEPT !.stickers = stickers, !.last_seen = now]
        ELSE tbl[u]]

(* database.py:365-384  _cleanup_old_backups: the rows of the backups     *)
(* table beyond the MAX_BACKUPS newest are deleted; n is the number of     *)
(* rows before, the result the number after.                               *)
cleanup_old_backups(n) == IF n > MAX_BACKUPS THEN MAX_BACKUPS ELSE n

(* database.py:330-363  backup_database: one row INSERTed into backups,    *)
(* then the cleanup; an exception (the copy fails) is caught before the    *)
(* insert and None is returned.                                            *)
backup_database(n, ioError) ==
    IF ioError THEN n ELSE cleanup_old_backups(n + 1)

(* Mutant: a row that is banned already keeps its first reason. *)
ban_user_first_reason(tbl, user_id, reason, banned_by, now) ==
    [u \in DOMAIN tbl |->
        IF u = user_id
        THEN [tbl[u] EXCEPT !.is_banned = TRUE,
                            !.ban_reason = IF tbl[u].is_banned
                                           THEN @ ELSE reason,
                            !.banned_by = banned_by, !.ban_date = now]
        ELSE tbl[u]]

(* database.py:220-236  ban_user: UPDATE ... WHERE user_id = ?, which      *)
(* changes nothing when the id has no row.                                 *)
ban_user(tbl, user_id, reason, banned_by, now) ==
    [u \in DOMAIN tbl |->
        IF u = user_id
        THEN [tbl[u] EXCEPT !.is_banned = TRUE, !.ban_reason = reason,
                            !.banned_by = banned_by, !.ban_date = now]
        ELSE tbl[u]]

(* Mutant: the row of the user is deleted instead of updated. *)
unban_user_delete(tbl, user_id) ==
    [u \in (DOMAIN tbl) \ {user_id} |-> tbl[u]]

(* database.py:238-253  unban_user: UPDATE ... WHERE user_id = ? *)
unban_user(tbl, user_id) ==
    [u \in DOMAIN tbl |->
        IF u = user_id
        THEN [tbl[u] EXCEPT !.is_banned = FALSE, !.ban_reason = NULL_TEXT,
                            !.banned_by = NULL_INT, !.ban_date = NULL_INT]
        ELSE tbl[u]]

(* database.py:234, 250  return True: what ban_user and unban_user return  *)
(* when the UPDATE raised nothing, whether or not it matched a row.        *)
ban_user_returns(tbl, user_id) == TRUE
unban_user_returns(tbl, user_id) == TRUE

(* The rows of ids, in the order of a table scan (ascending user_id, the   *)
(* INTEGER PRIMARY KEY of database.py:24).                                 *)
RECURSIVE RowsInOrder(_, _)
RowsInOrder(tbl, ids) ==
    IF ids = {} THEN <<>>
    ELSE LET m == CHOOSE x \in ids : \A y \in ids : x <= y
         IN  <<tbl[m]>> \o RowsInOrder(tbl, ids \ {m})

(* Mutant: the WHERE clause is missing, banned rows are returned too. *)
get_all_users_unfiltered(tbl, include_banned, ioError) ==
    IF ioError THEN <<>> ELSE RowsInOrder(tbl, DOMAIN tbl)

(* Mutant: the rows read before the error are returned instead of []. *)
get_all_users_partial(tbl, include_banned, ioError) ==
    LET rows == RowsInOrder(tbl,
                    {u \in DOMAIN tbl : include_banned \/ ~tbl[u].is_banned})
    IN  IF ioError /\ rows # <<>> THEN <<rows[1]>> ELSE rows

(* database.py:190-218  get_all_users: every row, or only those with       *)
(* is_banned = FALSE; any exception is caught and [] is returned.          *)
get_all_users(tbl, include_banned, ioError) ==
    IF ioError
    THEN <<>>
    ELSE RowsInOrder(tbl,
            {u \in DOMAIN tbl : include_banned \/ ~tbl[u].is_banned})

(***************************************************************************)
(* utils.py: send_broadcast                                                *)
(***************************************************************************)

(* What one bot.send_message call ends with: a returned Message ("ok"), a  *)
(* returned value that reports a failure without raising, or a raised      *)
(* Exception (a TelegramError).  A send that ends cancelled is the fourth  *)
(* outcome, "cancelled", of AllOutcomes below.                             *)
Outcomes == {"ok", "failure_value", "error"}

Min(a, b) == IF a <= b THEN a ELSE b

(* Mutant: the last, partial chunk is lost (range stops at the last full   *)
(* multiple of the chunk size).                                            *)
user_chunks_full_only(us) ==
    [c \in 1..(Len(us) \div MAX_BROADCAST_CHUNK) |->
        SubSeq(us, (c - 1) * MAX_BROADCAST_CHUNK + 1, c * MAX_BROADCAST_CHUNK)]

(* Mutant: the range runs one step too far, which adds an empty chunk     *)
(* after a last chunk that is full.                                        *)
user_chunks_empty_tail(us) ==
    [c \in 1..((Len(us) \div MAX_BROADCAST_CHUNK) + 1) |->
        SubSeq(us, (c - 1) * MAX_BROADCAST_CHUNK + 1,
                   Min(c * MAX_BROADCAST_CHUNK, Len(us)))]

(* utils.py:25  user_chunks = [users[i:i + MAX_BROADCAST_CHUNK]            *)
(*                             for i in range(0, len(users), CHUNK)]       *)
user_chunks(us) ==
    [c \in 1..((Len(us) + MAX_BROADCAST_CHUNK - 1) \div MAX_BROADCAST_CHUNK) |->
        SubSeq(us, (c - 1) * MAX_BROADCAST_CHUNK + 1,
                   Min(c * MAX_BROADCAST_CHUNK, Len(us)))]

(* Mutant: the ban flag is looked up in the table when the chunk is built  *)
(* instead of being read from the snapshot row.                            *)
SkipRecipientLive(row, tbl) ==
    row.user_id \in DOMAIN tbl /\ tbl[row.user_id].is_banned

(* utils.py:31-33  if user.get('is_banned'): continue.  The flag is the    *)
(* one of the snapshot row; the table is not read.                         *)
SkipRecipient(row, tbl) == row.is_banned

(* utils.py:51  isinstance(result, Exception): true of a raised            *)
(* Exception, false of a returned value and of the CancelledError that     *)
(* gather returns for a cancelled send (a BaseException).                  *)
IsException(result) == result = "error"

(* Mutant: a result counts as a success only when it is a Message. *)
IsFailureStrict(result) == result # "ok"

(* utils.py:50-54  which results add to failed; the others add to success. *)
IsFailure(result) == IsException(result)

(* Mutant: results that are exceptions are dropped, not counted. *)
CountFailedNone(results) == 0

(* utils.py:50-52  the number of results counted as failed *)
CountFailed(results) ==
    Cardinality({i \in DOMAIN results : IsFailure(results[i])})

(* Mutant: one exception in the chunk and no result of it is a success. *)
CountSuccessAllOrNothing(results) ==
    IF \E i \in DOMAIN results : IsFailure(results[i])
    THEN 0
    ELSE Len(results)

(* utils.py:50-54  the number of results counted as success *)
CountSuccess(results) ==
    Cardinality({i \in DOMAIN results : ~IsFailure(results[i])})

(* The report shown in the confirmation message. *)
NoReport == [text |-> "none"]
(* bot.py:527-529  "Broadcast completed!  Success: .. Failed: .." *)
Completed(s, f) == [text |-> "completed", success |-> s, failed |-> f]
(* bot.py:536  "An error occurred!" *)
ErrorOccurred == [text |-> "error"]

(* The job before a Confirm button is pressed. *)
IdleJob ==
    [pc |-> "idle", by |-> 0, ioError |-> FALSE, users |-> <<>>,
     chunks |-> <<>>, res |-> <<>>, k |-> 0,
     success |-> 0, failed |-> 0, sleeps |-> 0, report |-> NoReport]

(* The sends of chunk c that have a task: not skipped at utils.py:32. *)
Tasks(j, c) == {i \in DOMAIN j.res[c] : j.res[c][i] # "none"}

(* The results of gather for chunk c, in task order (utils.py:47). *)
RECURSIVE ResultsOf(_, _)
ResultsOf(row, n) ==
    IF n = 0 THEN <<>>
    ELSE IF row[n] = "none" THEN ResultsOf(row, n - 1)
         ELSE Append(ResultsOf(row, n - 1), row[n])

(* Mutant: the empty snapshot is paced like a chunk before the return. *)
ReturnEmptyAfterSleep(j) ==
    [j EXCEPT !.pc = "report", !.success = 0, !.failed = 0, !.sleeps = 1]

(* utils.py:21-22  if not users: return 0, 0 *)
ReturnEmpty(j) == [j EXCEPT !.pc = "report", !.success = 0, !.failed = 0]

(* utils.py:57  if len(user_chunks) > 1 *)
SleepsAfterChunk(j) == Len(j.chunks) > 1

RECURSIVE LaunchChunk(_, _, _)
(* Mutant: the loop over the chunks is left at the first chunk after       *)
(* which a failure has been counted.                                       *)
LoopNextStopOnFailure(j, tbl) ==
    IF j.k < Len(j.chunks) /\ j.failed = 0
    THEN LaunchChunk(j, j.k + 1, tbl)
    ELSE [j EXCEPT !.pc = "report"]

(* Mutant: a chunk in which a send raised is sent once more, as long as    *)
(* the job has counted fewer failures than a chunk holds.                  *)
LoopNextRetry(j, tbl) ==
    IF /\ j.k >= 1
       /\ j.failed < MAX_BROADCAST_CHUNK
       /\ \E i \in DOMAIN j.res[j.k] : j.res[j.k][i] = "error"
    THEN LaunchChunk(j, j.k, tbl)
    ELSE IF j.k < Len(j.chunks)
         THEN LaunchChunk(j, j.k + 1, tbl)
         ELSE [j EXCEPT !.pc = "report"]

(* utils.py:27 and 60  the next iteration of the loop over user_chunks, or *)
(* the return of the tally when there is none.                             *)
LoopNext(j, tbl) ==
    IF j.k < Len(j.chunks)
    THEN LaunchChunk(j, j.k + 1, tbl)
    ELSE [j EXCEPT !.pc = "report"]

(* Mutant: the tally so far is shown after every chunk. *)
AfterChunkWithProgress(j, tbl) ==
    LET j1 == [j EXCEPT !.report = Completed(j.success, j.failed)]
    IN  IF SleepsAfterChunk(j)
        THEN [j1 EXCEPT !.pc = "sleep"]
        ELSE LoopNext(j1, tbl)

(* utils.py:56-58  after the results of a chunk are counted *)
AfterChunk(j, tbl) ==
    IF SleepsAfterChunk(j)
    THEN [j EXCEPT !.pc = "sleep"]
    ELSE LoopNext(j, tbl)

(* utils.py:28-47  one coroutine per recipient of chunk c that is not      *)
(* skipped, all handed to gather at once; with no task the chunk is over.  *)
LaunchChunk(j, c, tbl) ==
    LET row == [i \in DOMAIN j.chunks[c] |->
                    IF SkipRecipient(j.chunks[c][i], tbl)
                    THEN "none" ELSE "pending"]
        j1  == [j EXCEPT !.k = c, !.res[c] = row]
    IN  IF Tasks(j1, c) # {}
        THEN [j1 EXCEPT !.pc = "gather"]
        ELSE AfterChunk(j1, tbl)

(* utils.py:17-27  the snapshot read, the early return, the chunks *)
StartJob(j, snapshot, tbl) ==
    IF snapshot = <<>>
    THEN ReturnEmpty([j EXCEPT !.users = snapshot])
    ELSE LET cs == user_chunks(snapshot)
             j1 == [j EXCEPT !.users = snapshot, !.chunks = cs,
                             !.res = [c \in DOMAIN cs |->
                                        [i \in DOMAIN cs[c] |-> "none"]]]
         IN  LoopNext(j1, tbl)

(***************************************************************************)
(* bot.py: the handlers                                                    *)
(***************************************************************************)

(* The two calls of send_broadcast of the specification SpecJobs. *)
JobSlots == {"first", "second"}

(* No /ban and no /unban has been handled. *)
NoCommand ==
    [by |-> 0, command |-> "none", reply |-> "none", target |-> 0,
     notified |-> FALSE, delivered |-> FALSE]

(* A /ban or /unban that ended before the database was touched: with the   *)
(* refusal (bot.py:186-188, 230-232), the usage line (bot.py:190-192,      *)
(* 234-236) or "Invalid user ID!" (bot.py:221-222, 258-259).               *)
Rejected(u, command, reply) ==
    [by |-> u, command |-> command, reply |-> reply, target |-> 0,
     notified |-> FALSE, delivered |-> FALSE]

(* A /ban or /unban that went through: send_message to the target was      *)
(* called (bot.py:208-212, 247-251), its exception if any was logged, and  *)
(* the admin was told "has been banned" / "has been unbanned"              *)
(* (bot.py:216-218, 253).                                                  *)
Acknowledged(u, command, target_id, delivered) ==
    [by |-> u, command |-> command, reply |-> "done", target |-> target_id,
     notified |-> TRUE, delivered |-> delivered]

(* The reply of a /ban or /unban that does not go through. *)
RejectionOf(u, argKind) ==
    IF ~is_admin(u) THEN "refused"
    ELSE IF argKind = "none" THEN "usage" ELSE "invalid"

NotServed == [user |-> 0, update |-> "none"]
Served(u, update) == [user |-> u, update |-> update]

(* The process has started with no id in the ADMIN_IDS environment         *)
(* variable (config.py:12 default ''), an empty table and no update yet.   *)
Init ==
    /\ ADMIN_IDS = LoadAdminIds(<<>>)
    /\ users = <<>>
    /\ keyboards = 0
    /\ job = IdleJob
    /\ lastServed = NotServed
    /\ backups = 0
    /\ jobs = [n \in JobSlots |-> IdleJob]
    /\ lastCommand = NoCommand

(* bot.py:50-90  /start: add_user, then the welcome message to the user *)
Start(u, profile, now) ==
    /\ users' = add_user(users, UserData(u, profile), now)
    /\ lastServed' = Served(u, "start")
    /\ UNCHANGED <<ADMIN_IDS, jobs, backups, lastCommand, keyboards, job>>

(* bot.py:349-383  a sticker message: saved to the row when there is one,  *)
(* answered in every case.                                                 *)
HandleSticker(u) ==
    /\ lastServed' = Served(u, "sticker")
    /\ UNCHANGED <<ADMIN_IDS, jobs, backups, lastCommand, users, keyboards, job>>

(* bot.py:92-136, 138-181, 385-430, 595-630  /help, /profile, /mystickers, *)
(* /id, /stats, /ping: the row is read if there is one, the user answered. *)
InfoCommand(u) ==
    /\ lastServed' = Served(u, "command")
    /\ UNCHANGED <<ADMIN_IDS, jobs, backups, lastCommand, users, keyboards, job>>

(* bot.py:440-515  the buttons stats, profile, admin_panel and help: the   *)
(* message is edited to the answer.                                        *)
ButtonInfo(u) ==
    /\ lastServed' = Served(u, "button")
    /\ UNCHANGED <<ADMIN_IDS, jobs, backups, lastCommand, users, keyboards, job>>

(* bot.py:55-65  /start as the table sees it: add_user.  The welcome       *)
(* message is left out of the state of the broadcast specification.        *)
FirstContact(u, profile, now) ==
    /\ users' = add_user(users, UserData(u, profile), now)
    /\ UNCHANGED <<ADMIN_IDS, jobs, backups, lastCommand, keyboards, job, lastServed>>

(* bot.py:349-368  a sticker message as the table sees it: when the sender *)
(* has a row, the stickers list grows by one (the model follows its length *)
(* up to MaxStickers) and last_seen is written; without a row nothing is   *)
(* saved.  The reply is that of HandleSticker.                             *)
StickerSaved(u, now) ==
    /\ users' = IF u \in DOMAIN users
                THEN update_user(users, u,
                        Min(users[u].stickers + 1, MaxStickers), now)
                ELSE users
    /\ UNCHANGED <<ADMIN_IDS, jobs, backups, lastCommand, keyboards, job, lastServed>>

(* bot.py:538-560  /backup: refused to a user who is no admin, else        *)
(* backup_database and the file sent to the chat.                          *)
BackupCommand(u, ioError) ==
    /\ backups' = IF is_admin(u)
                  THEN backup_database(backups, ioError)
                  ELSE backups
    /\ UNCHANGED <<ADMIN_IDS, jobs, lastCommand, users, keyboards, job, lastServed>>

(* The argument of /ban and /unban: none, one that is no integer (int()    *)
(* raises ValueError), or an integer id.                                   *)
ArgKinds == {"none", "bad", "id"}
(* The integer the argument parses to, when it is one (0: there is none). *)
TargetsOf(argKind) == IF argKind = "id" THEN UserIds ELSE {0}

(* bot.py:183-225  /ban: refused to a user who is no admin, usage without  *)
(* an argument, "Invalid user ID" on a ValueError, else ban_user.          *)
BanCommand(u, argKind, target_id, reason, now) ==
    /\ users' = IF is_admin(u) /\ argKind = "id"
                THEN ban_user(users, target_id, reason, u, now)
                ELSE users
    /\ UNCHANGED <<ADMIN_IDS, jobs, backups, lastCommand, keyboards, job, lastServed>>

(* bot.py:227-262  /unban *)
UnbanCommand(u, argKind, target_id) ==
    /\ users' = IF is_admin(u) /\ argKind = "id"
                THEN unban_user(users, target_id)
                ELSE users
    /\ UNCHANGED <<ADMIN_IDS, jobs, backups, lastCommand, keyboards, job, lastServed>>

(* Mutant: the ban is written and the target told before the admin check. *)
BanHandledUnchecked(u, argKind, target_id, reason, now, delivered) ==
    /\ users' = IF argKind = "id"
                THEN ban_user(users, target_id, reason, u, now)
                ELSE users
    /\ lastCommand' = IF argKind = "id"
                      THEN Acknowledged(u, "ban", target_id, delivered)
                      ELSE Rejected(u, "ban", RejectionOf(u, argKind))
    /\ UNCHANGED <<ADMIN_IDS, jobs, backups, keyboards, job, lastServed>>

(* bot.py:183-225  /ban with what the admin and the target are sent: the   *)
(* value ban_user returns is not read (bot.py:199), the notification is    *)
(* tried whether the target has a row or not, and a send that raises       *)
(* (delivered = FALSE) is logged.                                          *)
BanHandled(u, argKind, target_id, reason, now, delivered) ==
    /\ users' = IF is_admin(u) /\ argKind = "id"
                THEN ban_user(users, target_id, reason, u, now)
                ELSE users
    /\ lastCommand' = IF is_admin(u) /\ argKind = "id"
                      THEN Acknowledged(u, "ban", target_id, delivered)
                      ELSE Rejected(u, "ban", RejectionOf(u, argKind))
    /\ UNCHANGED <<ADMIN_IDS, jobs, backups, keyboards, job, lastServed>>

(* bot.py:227-262  /unban with what the admin and the target are sent. *)
UnbanHandled(u, argKind, target_id, delivered) ==
    /\ users' = IF is_admin(u) /\ argKind = "id"
                THEN unban_user(users, target_id)
                ELSE users
    /\ lastCommand' = IF is_admin(u) /\ argKind = "id"
                      THEN Acknowledged(u, "unban", target_id, delivered)
                      ELSE Rejected(u, "unban", RejectionOf(u, argKind))
    /\ UNCHANGED <<ADMIN_IDS, jobs, backups, keyboards, job, lastServed>>

(* bot.py:264-286  /broadcast: an admin who gives a message is shown the   *)
(* confirmation keyboard; anyone else is refused, no message is usage.     *)
BroadcastCommand(u, hasArgs) ==
    /\ keyboards' = IF is_admin(u) /\ hasArgs /\ keyboards < MaxKeyboards
                    THEN keyboards + 1
                    ELSE keyboards
    /\ UNCHANGED <<ADMIN_IDS, jobs, backups, lastCommand, users, job, lastServed>>

(* bot.py:432-437, 517-519  the Confirm button, pressed by any user who    *)
(* sees the confirmation message: the message is edited (its keyboard      *)
(* goes) and send_broadcast is called.  The code makes no is_admin test on *)
(* this path.                                                              *)
ButtonConfirmBroadcast(u) ==
    /\ keyboards > 0
    /\ job.pc \in {"idle", "done"}
    /\ keyboards' = keyboards - 1
    /\ job' = [IdleJob EXCEPT !.pc = "start", !.by = u]
    /\ UNCHANGED <<ADMIN_IDS, jobs, backups, lastCommand, users, lastServed>>

(* bot.py:531-532  the Cancel button *)
ButtonCancelBroadcast(u) ==
    /\ keyboards > 0
    /\ keyboards' = keyboards - 1
    /\ UNCHANGED <<ADMIN_IDS, jobs, backups, lastCommand, users, job, lastServed>>

(* utils.py:17-47  send_broadcast up to its first await: the snapshot, the *)
(* chunks and the tasks of the first chunk.                                *)
SendBroadcastStart(ioError) ==
    /\ job.pc = "start"
    /\ job' = StartJob([job EXCEPT !.ioError = ioError],
                       get_all_users(users, FALSE, ioError), users)
    /\ UNCHANGED <<ADMIN_IDS, jobs, backups, lastCommand, users, keyboards, lastServed>>

(* Mutant: the sends of a chunk are awaited one after the other, so a     *)
(* send ends only when those before it in the chunk have ended.            *)
SendResolvesInOrder(i, outcome) ==
    /\ job.pc = "gather"
    /\ i \in DOMAIN job.res[job.k]
    /\ job.res[job.k][i] = "pending"
    /\ \A h \in 1..(i - 1) : job.res[job.k][h] # "pending"
    /\ job' = [job EXCEPT !.res[job.k][i] = outcome]
    /\ UNCHANGED <<ADMIN_IDS, jobs, backups, lastCommand, users, keyboards, lastServed>>

(* One send of the chunk in flight ends; the sends end in any order. *)
SendResolves(i, outcome) ==
    /\ job.pc = "gather"
    /\ i \in DOMAIN job.res[job.k]
    /\ job.res[job.k][i] = "pending"
    /\ job' = [job EXCEPT !.res[job.k][i] = outcome]
    /\ UNCHANGED <<ADMIN_IDS, jobs, backups, lastCommand, users, keyboards, lastServed>>

(* Mutant: gather returns as soon as one send of the chunk has ended. *)
GatheredEarly ==
    /\ job.pc = "gather"
    /\ \E i \in DOMAIN job.res[job.k] :
            job.res[job.k][i] \notin {"none", "pending"}
    /\ LET results == ResultsOf(job.res[job.k], Len(job.res[job.k]))
       IN  job' = AfterChunk(
                    [job EXCEPT !.success = @ + CountSuccess(results),
                                !.failed = @ + CountFailed(results)],
                    users)
    /\ UNCHANGED <<ADMIN_IDS, jobs, backups, lastCommand, users, keyboards, lastServed>>

(* utils.py:47-58  gather returns when every send of the chunk has ended;  *)
(* the results are counted, then the pacing test.                          *)
Gathered ==
    /\ job.pc = "gather"
    /\ \A i \in DOMAIN job.res[job.k] : job.res[job.k][i] # "pending"
    /\ LET results == ResultsOf(job.res[job.k], Len(job.res[job.k]))
       IN  job' = AfterChunk(
                    [job EXCEPT !.success = @ + CountSuccess(results),
                                !.failed = @ + CountFailed(results)],
                    users)
    /\ UNCHANGED <<ADMIN_IDS, jobs, backups, lastCommand, users, keyboards, lastServed>>

(* utils.py:58  asyncio.sleep(BROADCAST_DELAY) is over *)
Wake ==
    /\ job.pc = "sleep"
    /\ job' = LoopNext([job EXCEPT !.sleeps = @ + 1], users)
    /\ UNCHANGED <<ADMIN_IDS, jobs, backups, lastCommand, users, keyboards, lastServed>>

(* bot.py:521-529  send_broadcast has returned (success, failed); the      *)
(* message is edited to the report.  An edit that raises (bot.py:534-536)  *)
(* is not modelled.                                                        *)
Report ==
    /\ job.pc = "report"
    /\ job' = [job EXCEPT !.pc = "done",
                          !.report = Completed(job.success, job.failed)]
    /\ UNCHANGED <<ADMIN_IDS, jobs, backups, lastCommand, users, keyboards, lastServed>>

(***************************************************************************)
(* Two broadcasts at once.  send_broadcast keeps users, success, failed,   *)
(* user_chunks and tasks in the frame of the coroutine (utils.py:17-25),   *)
(* so each call has a record of its own.  The application of bot.py:679    *)
(* is built without concurrent updates and handles one update at a time:   *)
(* there the second call starts when the first has returned, which is one  *)
(* of the schedules below; the others are those of an application that     *)
(* handles updates concurrently.  The confirmation message and its         *)
(* keyboard are left out: the callback is taken as it arrives.             *)
(***************************************************************************)

(* bot.py:517-519  a callback confirm_broadcast arrives for call n *)
JobConfirm(n, u) ==
    /\ jobs[n].pc = "idle"
    /\ jobs' = [jobs EXCEPT ![n] = [IdleJob EXCEPT !.pc = "start", !.by = u]]
    /\ UNCHANGED <<ADMIN_IDS, backups, lastCommand, users, keyboards, job, lastServed>>

(* utils.py:17-47  call n up to its first await *)
JobStart(n, ioError) ==
    /\ jobs[n].pc = "start"
    /\ jobs' = [jobs EXCEPT ![n] =
                    StartJob([@ EXCEPT !.ioError = ioError],
                             get_all_users(users, FALSE, ioError), users)]
    /\ UNCHANGED <<ADMIN_IDS, backups, lastCommand, users, keyboards, job, lastServed>>

(* One send of the chunk call n has in flight ends. *)
JobSendResolves(n, i, outcome) ==
    /\ jobs[n].pc = "gather"
    /\ i \in DOMAIN jobs[n].res[jobs[n].k]
    /\ jobs[n].res[jobs[n].k][i] = "pending"
    /\ jobs' = [jobs EXCEPT ![n].res[jobs[n].k][i] = outcome]
    /\ UNCHANGED <<ADMIN_IDS, backups, lastCommand, users, keyboards, job, lastServed>>

(* Mutant: success and failed are module-level counters that every call    *)
(* adds to.                                                                *)
JobGatheredSharedTally(n) ==
    /\ jobs[n].pc = "gather"
    /\ \A i \in DOMAIN jobs[n].res[jobs[n].k] :
            jobs[n].res[jobs[n].k][i] # "pending"
    /\ LET results ==
               ResultsOf(jobs[n].res[jobs[n].k], Len(jobs[n].res[jobs[n].k]))
           counted == [m \in JobSlots |->
                         [jobs[m] EXCEPT
                            !.success = @ + CountSuccess(results),
                            !.failed = @ + CountFailed(results)]]
       IN  jobs' = [counted EXCEPT ![n] = AfterChunk(@, users)]
    /\ UNCHANGED <<ADMIN_IDS, backups, lastCommand, users, keyboards, job, lastServed>>

(* utils.py:47-58  gather of call n returns; its results are counted in    *)
(* the counters of call n.                                                 *)
JobGathered(n) ==
    /\ jobs[n].pc = "gather"
    /\ \A i \in DOMAIN jobs[n].res[jobs[n].k] :
            jobs[n].res[jobs[n].k][i] # "pending"
    /\ LET results ==
               ResultsOf(jobs[n].res[jobs[n].k], Len(jobs[n].res[jobs[n].k]))
       IN  jobs' = [jobs EXCEPT ![n] =
                        AfterChunk(
                            [@ EXCEPT !.success = @ + CountSuccess(results),
                                      !.failed = @ + CountFailed(results)],
                            users)]
    /\ UNCHANGED <<ADMIN_IDS, backups, lastCommand, users, keyboards, job, lastServed>>

(* utils.py:58  the sleep of call n is over *)
JobWake(n) ==
    /\ jobs[n].pc = "sleep"
    /\ jobs' = [jobs EXCEPT ![n] = LoopNext([@ EXCEPT !.sleeps = @ + 1], users)]
    /\ UNCHANGED <<ADMIN_IDS, backups, lastCommand, users, keyboards, job, lastServed>>

(* bot.py:521-529  call n has returned; its tally is shown *)
JobReport(n) ==
    /\ jobs[n].pc = "report"
    /\ jobs' = [jobs EXCEPT ![n] =
                    [@ EXCEPT !.pc = "done",
                              !.report = Completed(jobs[n].success,
                                                   jobs[n].failed)]]
    /\ UNCHANGED <<ADMIN_IDS, backups, lastCommand, users, keyboards, job, lastServed>>

(* bot.py:519, 534-536  the Confirm button when the edit to                *)
(* "Broadcasting message..." raises: send_broadcast is not called; the     *)
(* except branch edits the message to "An error occurred!" (the keyboard   *)
(* goes), and when that edit raises too the message stays as it was.       *)
ConfirmEditRaises(u, errorShown) ==
    /\ keyboards > 0
    /\ job.pc \in {"idle", "done"}
    /\ keyboards' = IF errorShown THEN keyboards - 1 ELSE keyboards
    /\ UNCHANGED <<ADMIN_IDS, jobs, backups, lastCommand, users, job, lastServed>>

(* bot.py:527-529, 534-536  send_broadcast has returned and the edit to    *)
(* the report raises: the except branch edits the message to "An error     *)
(* occurred!"; when that edit raises too the message keeps the text        *)
(* "Broadcasting message...".  The tally is not shown in either case.      *)
ReportEditRaises(errorShown) ==
    /\ job.pc = "report"
    /\ job' = [job EXCEPT !.pc = "done",
                          !.report = IF errorShown
                                     THEN ErrorOccurred ELSE NoReport]
    /\ UNCHANGED <<ADMIN_IDS, jobs, backups, lastCommand, users, keyboards, lastServed>>

(***************************************************************************)
(* Spec: the table and the broadcast.  The handlers of the table run       *)
(* between the steps of a job: every await of the job is a point where     *)
(* another update may be handled.  Every /ban here is one without a reason *)
(* at the first clock reading: the broadcast reads only is_banned.  A /ban *)
(* or /unban that is refused (no admin, no argument, a bad argument)       *)
(* changes nothing, so it is a stuttering step, which [][Next]_vars allows *)
(* already; such commands are enumerated in SpecService and SpecAdmin.     *)
(***************************************************************************)
Admins == {u \in UserIds : is_admin(u)}

Next ==
    \/ \E u \in UserIds : FirstContact(u, DefaultProfile, 1)
    \/ \E u \in Admins, target_id \in UserIds :
            BanCommand(u, "id", target_id, DefaultReason, 1)
    \/ \E u \in Admins, target_id \in UserIds :
            UnbanCommand(u, "id", target_id)
    \/ \E u \in UserIds, hasArgs \in BOOLEAN : BroadcastCommand(u, hasArgs)
    \/ \E u \in UserIds : ButtonConfirmBroadcast(u)
    \/ \E u \in UserIds : ButtonCancelBroadcast(u)
    \/ \E ioError \in BOOLEAN : SendBroadcastStart(ioError)
    \/ \E i \in 1..MAX_BROADCAST_CHUNK, outcome \in Outcomes :
            SendResolves(i, outcome)
    \/ Gathered
    \/ Wake
    \/ Report

Spec == Init /\ [][Next]_vars

(***************************************************************************)
(* SpecService: the table and the handlers that answer a user; /ban with   *)
(* every reason and clock reading.                                         *)
(***************************************************************************)
NextService ==
    \/ \E u \in UserIds : Start(u, DefaultProfile, 1)
    \/ \E u \in UserIds : HandleSticker(u)
    \/ \E u \in UserIds : InfoCommand(u)
    \/ \E u \in UserIds : ButtonInfo(u)
    \/ \E u \in UserIds, argKind \in ArgKinds :
        \E target_id \in TargetsOf(argKind), reason \in Reasons, now \in Times :
            BanCommand(u, argKind, target_id, reason, now)
    \/ \E u \in UserIds, argKind \in ArgKinds :
        \E target_id \in TargetsOf(argKind) : UnbanCommand(u, argKind, target_id)

SpecService == Init /\ [][NextService]_vars

(***************************************************************************)
(* SpecCallback: button_callback and send_broadcast with every way their   *)
(* awaits can end: a send may end cancelled (asyncio.CancelledError, which *)
(* is a BaseException and no Exception), an edit of the confirmation       *)
(* message may raise.  The table only grows here: no /ban, no /unban.      *)
(***************************************************************************)
AllOutcomes == Outcomes \cup {"cancelled"}

NextCallback ==
    \/ \E u \in UserIds : FirstContact(u, DefaultProfile, 1)
    \/ \E u \in UserIds, hasArgs \in BOOLEAN : BroadcastCommand(u, hasArgs)
    \/ \E u \in UserIds : ButtonConfirmBroadcast(u)
    \/ \E u \in UserIds, errorShown \in BOOLEAN : ConfirmEditRaises(u, errorShown)
    \/ \E ioError \in BOOLEAN : SendBroadcastStart(ioError)
    \/ \E i \in 1..MAX_BROADCAST_CHUNK, outcome \in AllOutcomes :
            SendResolves(i, outcome)
    \/ Gathered
    \/ Wake
    \/ Report
    \/ \E errorShown \in BOOLEAN : ReportEditRaises(errorShown)

SpecCallback == Init /\ [][NextCallback]_vars

(***************************************************************************)
(* FairCallback: SpecCallback on an event loop that runs every coroutine   *)
(* that is ready (the start of send_broadcast, the return of gather, the   *)
(* end of the sleep), with a send capability whose every call ends.        *)
(***************************************************************************)
Fairness ==
    /\ WF_vars(\E ioError \in BOOLEAN : SendBroadcastStart(ioError))
    /\ WF_vars(\E i \in 1..MAX_BROADCAST_CHUNK, outcome \in AllOutcomes :
                    SendResolves(i, outcome))
    /\ WF_vars(Gathered)
    /\ WF_vars(Wake)

FairCallback == SpecCallback /\ Fairness

(***************************************************************************)
(* SpecAdmin: the process started with any list of ids in the ADMIN_IDS    *)
(* environment variable (the owner among them or not, an id twice or       *)
(* not), and the handlers that ask is_admin.                               *)
(***************************************************************************)
EnvAdminIds == UNION {[1..n -> UserIds] : n \in 0..MaxAdmins}

InitAdmin ==
    /\ ADMIN_IDS \in {LoadAdminIds(env_ids) : env_ids \in EnvAdminIds}
    /\ users = <<>>
    /\ keyboards = 0
    /\ job = IdleJob
    /\ lastServed = NotServed
    /\ backups = 0
    /\ jobs = [n \in JobSlots |-> IdleJob]
    /\ lastCommand = NoCommand

NextAdmin ==
    \/ \E u \in UserIds : FirstContact(u, DefaultProfile, 1)
    \/ \E u \in UserIds, argKind \in ArgKinds :
        \E target_id \in TargetsOf(argKind) :
            BanCommand(u, argKind, target_id, DefaultReason, 1)
    \/ \E u \in UserIds, argKind \in ArgKinds :
        \E target_id \in TargetsOf(argKind) : UnbanCommand(u, argKind, target_id)
    \/ \E u \in UserIds, hasArgs \in BOOLEAN : BroadcastCommand(u, hasArgs)
    \/ \E u \in UserIds : ButtonCancelBroadcast(u)

SpecAdmin == InitAdmin /\ [][NextAdmin]_vars

(***************************************************************************)
(* SpecStore: the database under the handlers that write it, with every    *)
(* profile and clock reading: /start, a sticker, /ban, /unban, /backup.    *)
(* The updates come from two users, the owner and one who is no admin;     *)
(* every statement writes one row, found by its primary key.  The logs     *)
(* table (add_log: INSERT INTO logs, database.py:317-328) is read by no    *)
(* handler and is not part of the state.                                   *)
(***************************************************************************)
StoreIds == {OWNER_ID, NumUsers}

NextStore ==
    \/ \E u \in StoreIds, profile \in Profiles, now \in Times :
            FirstContact(u, profile, now)
    \/ \E u \in StoreIds, now \in Times : StickerSaved(u, now)
    \/ \E u \in StoreIds, target_id \in StoreIds :
            BanCommand(u, "id", target_id, DefaultReason, 1)
    \/ \E u \in StoreIds, target_id \in StoreIds :
            UnbanCommand(u, "id", target_id)
    \/ \E u \in StoreIds, ioError \in BOOLEAN : BackupCommand(u, ioError)

SpecStore == Init /\ [][NextStore]_vars

(***************************************************************************)
(* SpecCommand: /start, /ban and /unban from every user with every kind of *)
(* argument, with the reply and the notification of each command kept.     *)
(***************************************************************************)
NextCommand ==
    \/ \E u \in UserIds : FirstContact(u, DefaultProfile, 1)
    \/ \E u \in UserIds, argKind \in ArgKinds, delivered \in BOOLEAN :
            \E target_id \in TargetsOf(argKind) :
                BanHandled(u, argKind, target_id, DefaultReason, 1, delivered)
    \/ \E u \in UserIds, argKind \in ArgKinds, delivered \in BOOLEAN :
            \E target_id \in TargetsOf(argKind) :
                UnbanHandled(u, argKind, target_id, delivered)

SpecCommand == Init /\ [][NextCommand]_vars

(***************************************************************************)
(* SpecJobs: users join while two broadcasts run, the steps of the two     *)
(* calls in any order.  The users join in the order of their ids: a call   *)
(* counts the rows of its snapshot and the results of its sends, so a      *)
(* schedule with another order of joining is one of these with the ids     *)
(* renamed.                                                                *)
(***************************************************************************)
NextJobs ==
    \/ \E u \in UserIds :
            /\ u = Cardinality(DOMAIN users) + 1
            /\ FirstContact(u, DefaultProfile, 1)
    \/ \E n \in JobSlots, u \in Admins : JobConfirm(n, u)
    \/ \E n \in JobSlots, ioError \in BOOLEAN : JobStart(n, ioError)
    \/ \E n \in JobSlots, i \in 1..MAX_BROADCAST_CHUNK, outcome \in Outcomes :
            JobSendResolves(n, i, outcome)
    \/ \E n \in JobSlots : JobGathered(n)
    \/ \E n \in JobSlots : JobWake(n)
    \/ \E n \in JobSlots : JobReport(n)

SpecJobs == Init /\ [][NextJobs]_vars

(***************************************************************************)
(* What a job has done, read from its state                                *)
(***************************************************************************)

(* send_broadcast has returned its tally. *)
Returned == job.pc \in {"report", "done"}

(* The places of the recipients in the chunks: <<chunk, index>>. *)
Places == {<<c, i>> \in (DOMAIN job.res) \X (1..MAX_BROADCAST_CHUNK) :
                i \in DOMAIN job.res[c]}

(* The recipients whose send ended with outcome o. *)
NumberOf(o) == Cardinality({p \in Places : job.res[p[1]][p[2]] = o})

(* The ids of the snapshot, and those bot.send_message was called for. *)
SnapshotIds == {job.users[i].user_id : i \in DOMAIN job.users}
AttemptedIds ==
    {job.chunks[p[1]][p[2]].user_id :
        p \in {q \in Places : job.res[q[1]][q[2]] # "none"}}

IsBanned(u) == u \in DOMAIN users /\ users[u].is_banned

(* The first n chunks of cs, one after the other. *)
RECURSIVE Concat(_, _)
Concat(cs, n) == IF n = 0 THEN <<>> ELSE Concat(cs, n - 1) \o cs[n]

(***************************************************************************)
(* The claims                                                              *)
(***************************************************************************)

(* C1  Conservation: when send_broadcast returns, success + failed is the  *)
(* size of the snapshot read at the start of the job, and every recipient  *)
(* of the snapshot has one counted outcome.                                *)
C1_Conservation ==
    Returned =>
        /\ job.success + job.failed = Len(job.users)
        /\ Cardinality(Places) = Len(job.users)
        /\ \A p \in Places : job.res[p[1]][p[2]] \in Outcomes

C1_Witness ==
    /\ job.pc = "done"
    /\ Len(job.users) > MAX_BROADCAST_CHUNK
    /\ job.success > 0
    /\ job.failed > 0

(* C2  Batch isolation: when the send raised for exactly one recipient and *)
(* returned no failure for any other, the job has run to its end, that one *)
(* recipient is the only failure and every other recipient, of its chunk   *)
(* and of the later chunks, is a success.                                  *)
C2_BatchIsolation ==
    (Returned /\ NumberOf("error") = 1 /\ NumberOf("failure_value") = 0) =>
        /\ job.failed = 1
        /\ job.success = Len(job.users) - 1
        /\ NumberOf("ok") = Len(job.users) - 1

C2_Witness ==
    /\ job.pc = "done"
    /\ Len(job.res) = 2
    /\ Len(job.res[1]) = 2
    /\ job.res[1][1] = "error"
    /\ job.res[1][2] = "ok"
    /\ job.res[2][1] = "ok"
    /\ job.report = Completed(2, 1)

(* C3  Pacing, as claimed: a job of B >= 1 chunks sleeps B - 1 times, with *)
(* no sleep after the last chunk.                                          *)
C3_Pacing ==
    (Returned /\ Len(job.chunks) >= 1) => job.sleeps = Len(job.chunks) - 1

(* C4, as claimed: a send that returns a failure value is counted as a     *)
(* failure, so success is the number of sends that returned success.       *)
C4_ReturnedFailureCounted ==
    Returned => job.success = NumberOf("ok")

(* C4, amended: failed is the number of sends that raised an Exception;    *)
(* every send that returned, a failure value included, is a success.       *)
C4_OnlyExceptionsFail ==
    Returned =>
        /\ job.failed = NumberOf("error")
        /\ job.success = NumberOf("ok") + NumberOf("failure_value")

C4_Witness ==
    /\ job.pc = "done"
    /\ NumberOf("ok") = 1
    /\ NumberOf("error") = 1
    /\ NumberOf("failure_value") = 1
    /\ job.report = Completed(2, 1)

(* C5  Authorization, as claimed: a broadcast send is made only in a job   *)
(* started by a user for whom is_admin is true.                            *)
C5_OnlyAdminsBroadcast ==
    AttemptedIds # {} => is_admin(job.by)

(* C6  Snapshot isolation: the recipients of a job are read once; while    *)
(* the job runs they do not change, whatever happens to the table, and     *)
(* when it returns the ids sent to are exactly the ids of the snapshot,    *)
(* each with a counted outcome.                                            *)
C6_SnapshotIsolation ==
    /\ [][job.pc \in {"gather", "sleep", "report"} =>
            /\ job'.users = job.users
            /\ job'.chunks = job.chunks]_vars
    /\ [](AttemptedIds \subseteq SnapshotIds)
    /\ [](Returned =>
            /\ AttemptedIds = SnapshotIds
            /\ \A p \in Places : job.res[p[1]][p[2]] \in Outcomes)

(* The send to a recipient of the second chunk is in flight, and the table  *)
(* has that recipient banned: the ban came after the snapshot.             *)
C6_Witness ==
    /\ job.pc = "gather"
    /\ job.k = 2
    /\ job.sleeps = 1
    /\ job.res[2][1] = "pending"
    /\ IsBanned(job.chunks[2][1].user_id)

C8_BanExclusion ==
    LET active == get_all_users(users, FALSE, FALSE)
        all    == get_all_users(users, TRUE, FALSE)
    IN  /\ \A i \in DOMAIN active : ~active[i].is_banned
        /\ {active[i] : i \in DOMAIN active}
                = {users[u] : u \in {v \in DOMAIN users : ~users[v].is_banned}}
        /\ {all[i] : i \in DOMAIN all} = {users[u] : u \in DOMAIN users}
        /\ Len(all) = Cardinality(DOMAIN users)
        /\ \A i \in DOMAIN job.users : ~job.users[i].is_banned

C8_Witness ==
    /\ \E u \in DOMAIN users : users[u].is_banned
    /\ \E u \in DOMAIN users : ~users[u].is_banned
    /\ Len(get_all_users(users, FALSE, FALSE)) < Len(get_all_users(users, TRUE, FALSE))
    /\ job.pc = "gather"

(* C9  Empty input: with an empty snapshot send_broadcast returns (0, 0)   *)
(* at once, with no send and no sleep.                                     *)
C9_EmptyInput ==
    (job.pc \notin {"idle", "start"} /\ job.users = <<>>) =>
        /\ Returned
        /\ job.success = 0 /\ job.failed = 0
        /\ job.sleeps = 0
        /\ AttemptedIds = {}
        /\ job.pc = "done" => job.report = Completed(0, 0)

(* The read succeeded and found no user who is not banned. *)
C9_Witness ==
    /\ job.pc = "done"
    /\ ~job.ioError
    /\ job.users = <<>>
    /\ job.report = Completed(0, 0)

(* C10, as claimed: no update of a user is answered while the user's row   *)
(* is flagged banned.                                                      *)
C10_BannedNotServed ==
    [][lastServed' # lastServed => ~IsBanned(lastServed'.user)]_vars

(* C11, as claimed: every broadcast that was confirmed and has ended has   *)
(* shown its tally: the message reads "Broadcast completed" with the pair  *)
(* send_broadcast returned.                                                *)
C11_ExactlyOneReport ==
    job.pc = "done" => job.report = Completed(job.success, job.failed)

(* C11, amended: the tally is shown at most once per job, only in the step *)
(* after send_broadcast has returned, and it is the pair returned; while   *)
(* the job runs no tally is shown; a job that has ended shows the tally,   *)
(* or "An error occurred!", or nothing when the edits raised.              *)
C11_AtMostOneReport ==
    /\ [][job'.report # job.report /\ job'.report.text = "completed" =>
            /\ job.pc = "report"
            /\ job'.pc = "done"
            /\ job.report = NoReport
            /\ job'.report = Completed(job.success, job.failed)
            /\ job'.success = job.success /\ job'.failed = job.failed]_vars
    /\ [](job.pc # "done" => job.report = NoReport)
    /\ [](job.pc = "done" =>
            job.report \in {Completed(job.success, job.failed),
                            ErrorOccurred, NoReport})

(* Two chunks were sent, the tally has a success and a failure, and the    *)
(* edit to the report raised: the message reads "An error occurred!".      *)
C11_Witness ==
    /\ job.pc = "done"
    /\ Len(job.chunks) = 2
    /\ job.success > 0
    /\ job.failed > 0
    /\ job.report = ErrorOccurred

(* C12  Ban operations are idempotent: ban_user on a row that is banned    *)
(* leaves is_banned true and writes the latest reason, and a second        *)
(* ban_user with the same values changes nothing more; unban_user twice is *)
(* unban_user once; unban_user on a row that is not banned returns True    *)
(* and leaves the table as it was.  No other row is touched.               *)
C12_BanIdempotent ==
    \A id \in UserIds :
        LET unbanned == unban_user(users, id)
        IN  /\ \A reason \in Reasons, by \in UserIds, now \in Times :
                LET banned == ban_user(users, id, reason, by, now)
                IN  /\ IsBanned(id) =>
                            /\ banned[id].is_banned
                            /\ banned[id].ban_reason = reason
                    /\ DOMAIN banned = DOMAIN users
                    /\ \A v \in DOMAIN users \ {id} : banned[v] = users[v]
                    /\ ban_user(banned, id, reason, by, now) = banned
                    /\ ban_user_returns(users, id)
            /\ unban_user(unbanned, id) = unbanned
            /\ \A v \in DOMAIN users \ {id} : unbanned[v] = users[v]
            /\ (id \in DOMAIN users /\ ~users[id].is_banned) =>
                    /\ unbanned = users
                    /\ unban_user_returns(users, id)

(* The table holds a row banned with a reason that is not the default, at  *)
(* the last clock reading, and a row that is not banned.                   *)
C12_Witness ==
    /\ \E u \in DOMAIN users :
            /\ users[u].is_banned
            /\ users[u].ban_reason = "spam"
            /\ users[u].ban_date = MaxTime
    /\ \E u \in DOMAIN users : ~users[u].is_banned

(* C13, as claimed: once an update of a user has been handled (a command, *)
(* a sticker, a button tap), the table holds a row of that user.           *)
C13_RecordOnFirstContact ==
    lastServed # NotServed => lastServed.user \in DOMAIN users

(* C14  AdminGate: is_admin(user_id) is true exactly for the owner and the *)
(* ids configured in the environment; the owner is always an admin; the    *)
(* list is the one loaded at the start of the process and no handler       *)
(* changes it.                                                             *)
C14_AdminGate ==
    /\ [](\A u \in UserIds :
            is_admin(u) <=>
                \/ u = OWNER_ID
                \/ \E i \in 1..(Len(ADMIN_IDS) - 1) : ADMIN_IDS[i] = u)
    /\ [](is_admin(OWNER_ID))
    /\ [](\E env_ids \in EnvAdminIds : ADMIN_IDS = LoadAdminIds(env_ids))
    /\ [][ADMIN_IDS' = ADMIN_IDS]_vars

(* Two ids are configured, neither is the owner, and a configured admin    *)
(* who is not the owner has banned a user.                                 *)
C14_Witness ==
    /\ Len(ADMIN_IDS) = 3
    /\ ADMIN_IDS[1] # OWNER_ID
    /\ ADMIN_IDS[2] # OWNER_ID
    /\ \E u \in DOMAIN users :
            users[u].is_banned /\ users[u].banned_by # OWNER_ID

(* C15  Batch barrier and concurrency bound: the sends in flight are all   *)
(* of the chunk the job is gathering; when a send of a chunk has been      *)
(* started, no send of an earlier chunk is still in flight; at most        *)
(* MAX_BROADCAST_CHUNK sends of the job are in flight at any moment.       *)
C15_BatchBarrier ==
    /\ \A p \in Places :
            job.res[p[1]][p[2]] = "pending" =>
                job.pc = "gather" /\ p[1] = job.k
    /\ \A p, q \in Places :
            (p[1] < q[1] /\ job.res[q[1]][q[2]] # "none") =>
                job.res[p[1]][p[2]] # "pending"
    /\ NumberOf("pending") <= MAX_BROADCAST_CHUNK

(* The first chunk was full and all its sends have ended, one of them with *)
(* an error; a send of the second chunk is in flight.                      *)
C15_Witness ==
    /\ job.pc = "gather"
    /\ job.k = 2
    /\ Len(job.res[1]) = MAX_BROADCAST_CHUNK
    /\ job.res[1][1] = "error"
    /\ job.res[2][1] = "pending"

(* C16  Partition: the chunks of a job, one after the other, are the       *)
(* snapshot in its order; every chunk but the last has exactly             *)
(* MAX_BROADCAST_CHUNK recipients, the last has at least one and no more   *)
(* than that; every recipient of the snapshot is at exactly one place of   *)
(* the chunks.                                                             *)
C16_Partition ==
    job.pc \notin {"idle", "start"} =>
        /\ Concat(job.chunks, Len(job.chunks)) = job.users
        /\ \A c \in 1..(Len(job.chunks) - 1) :
                Len(job.chunks[c]) = MAX_BROADCAST_CHUNK
        /\ job.chunks # <<>> =>
                /\ Len(job.chunks[Len(job.chunks)]) >= 1
                /\ Len(job.chunks[Len(job.chunks)]) <= MAX_BROADCAST_CHUNK
        /\ \A i \in DOMAIN job.users :
                Cardinality({p \in Places :
                    job.chunks[p[1]][p[2]].user_id = job.users[i].user_id}) = 1

(* A snapshot of one full chunk and a last chunk that is not full. *)
C16_Witness ==
    /\ job.pc = "sleep"
    /\ Len(job.chunks) = 2
    /\ Len(job.chunks[1]) = MAX_BROADCAST_CHUNK
    /\ Len(job.chunks[2]) < MAX_BROADCAST_CHUNK
    /\ job.k = 2

(* C17  No retry: within one job a recipient whose send was started is not *)
(* sent to a second time: a send that was started stays started, a send    *)
(* that has ended keeps its outcome (a failure stays the failure it was),  *)
(* and no two places of the chunks hold the same recipient.                *)
C17_NoRetry ==
    /\ [][job'.pc # "start" =>
            \A p \in Places :
                /\ job.res[p[1]][p[2]] # "none" =>
                        job'.res[p[1]][p[2]] # "none"
                /\ job.res[p[1]][p[2]] \in AllOutcomes =>
                        job'.res[p[1]][p[2]] = job.res[p[1]][p[2]]]_vars
    /\ [](\A p, q \in Places :
            job.chunks[p[1]][p[2]].user_id = job.chunks[q[1]][q[2]].user_id
                => p = q)
    /\ [](Returned => job.failed = NumberOf("error"))

(* A send of the first chunk raised, a send of the second chunk ended      *)
(* well, and the job has returned with that one failure.                   *)
C17_Witness ==
    /\ job.pc = "done"
    /\ Len(job.res) = 2
    /\ job.res[1][2] = "error"
    /\ job.res[2][1] = "ok"
    /\ job.failed = 1

(* C18  Within a chunk the sends are not serialized: while the chunk is    *)
(* gathered every send of it has been started, whatever the others have    *)
(* come to; any send in flight can be the next to end, with any outcome;   *)
(* the tally is the count of the outcomes, whatever order they came in.    *)
C18_NotSerialized ==
    /\ job.pc = "gather" =>
            \A i \in DOMAIN job.res[job.k] :
                /\ job.res[job.k][i] # "none"
                /\ job.res[job.k][i] = "pending" =>
                        \A outcome \in Outcomes :
                            ENABLED SendResolves(i, outcome)
    /\ Returned =>
            /\ job.failed = NumberOf("error")
            /\ job.success = Cardinality(Places) - NumberOf("error")

(* The second send of a full chunk has ended while the first is still in   *)
(* flight.                                                                 *)
C18_Witness ==
    /\ job.pc = "gather"
    /\ Len(job.res[job.k]) = MAX_BROADCAST_CHUNK
    /\ job.res[job.k][1] = "pending"
    /\ job.res[job.k][2] \in Outcomes

(* C19, as claimed: only a send that returned is counted as a success;    *)
(* a send that ended with a raised error, a cancellation included, is      *)
(* counted as a failure.                                                   *)
C19_OnlyReturnedSendsSucceed ==
    Returned =>
        /\ job.success = NumberOf("ok") + NumberOf("failure_value")
        /\ job.failed = NumberOf("error") + NumberOf("cancelled")

(* C20  Run to completion: a job that has started goes through its chunks *)
(* one by one in order; when every send ends, send_broadcast returns; and  *)
(* when it has returned, the last chunk has been processed and every       *)
(* recipient of every chunk has an outcome.                                *)
C20_RunToCompletion ==
    /\ (job.pc \in {"start", "gather", "sleep"}) ~> Returned
    /\ [][job'.pc # "start" => job'.k \in {job.k, job.k + 1}]_vars
    /\ [](Returned =>
            /\ job.k = Len(job.chunks)
            /\ \A p \in Places : job.res[p[1]][p[2]] \in AllOutcomes
            /\ Cardinality(Places) = Len(job.users))

(* send_broadcast has returned after two chunks; a send of the first chunk *)
(* raised and a send of the second ended cancelled.                        *)
C20_Witness ==
    /\ job.pc = "report"
    /\ job.k = 2
    /\ job.res[1][1] = "error"
    /\ job.res[2][1] = "cancelled"

(* C21  User records are never hard-deleted: whatever add_user,           *)
(* update_user, ban_user, unban_user and backup_database do, an id that    *)
(* has a row keeps a row, and the row keeps its id.                        *)
C21_NeverDeleted ==
    [][\A u \in DOMAIN users :
            u \in DOMAIN users' /\ users'[u].user_id = u]_vars

(* Both users have a row, one is banned, one has a sticker saved, and the  *)
(* backups table has been cleaned up at least once.                        *)
C21_Witness ==
    /\ DOMAIN users = StoreIds
    /\ \E u \in DOMAIN users : users[u].is_banned
    /\ \E u \in DOMAIN users : users[u].stickers > 0
    /\ backups = MAX_BACKUPS

(* The columns of a users row that add_user leaves alone when the row      *)
(* exists (database.py:80-91 sets the other four).                         *)
KeptColumns ==
    {"user_id", "join_date", "stickers", "is_banned", "ban_reason",
     "banned_by", "ban_date"}

(* C23  add_user on an id that has a row writes username, first_name,      *)
(* last_name and last_seen of that row and nothing else: is_banned,        *)
(* ban_reason, banned_by, ban_date, join_date and stickers keep their      *)
(* values, no other row changes, and a banned user stays banned.           *)
C23_AddUserFrame ==
    \A u \in DOMAIN users, profile \in Profiles, now \in Times :
        LET after == add_user(users, UserData(u, profile), now)
        IN  /\ DOMAIN after = DOMAIN users
            /\ \A v \in (DOMAIN users) \ {u} : after[v] = users[v]
            /\ \A c \in KeptColumns : after[u][c] = users[u][c]
            /\ after[u].username = profile.username
            /\ after[u].first_name = profile.first_name
            /\ after[u].last_name = profile.last_name
            /\ after[u].last_seen = now
            /\ (users[u].is_banned => after[u].is_banned)

(* A banned user with a saved sticker who has contacted the bot again: the *)
(* row was seen after it was created and carries the second profile.       *)
C23_Witness ==
    \E u \in DOMAIN users :
        /\ users[u].is_banned
        /\ users[u].ban_reason = DefaultReason
        /\ users[u].stickers > 0
        /\ users[u].join_date = 1
        /\ users[u].last_seen = 2
        /\ users[u].username # DefaultProfile.username
        /\ add_user(users, UserData(u, DefaultProfile), 1)[u].is_banned

(* C22  An acknowledged ban is effective: once the admin has been told     *)
(* that an id is banned, and until an /unban of that id, the id is in no   *)
(* get_all_users(include_banned=False) snapshot, whether the id had a row  *)
(* when it was banned or gets one from add_user afterwards.  Stated for    *)
(* the command handled last, which no /unban can have followed.            *)
C22_AcknowledgedBanEffective ==
    (lastCommand.command = "ban" /\ lastCommand.reply = "done")
        => \A i \in DOMAIN get_all_users(users, FALSE, FALSE) :
                get_all_users(users, FALSE, FALSE)[i].user_id
                    # lastCommand.target

(* C24  A /ban or /unban from a user who is no admin, or without an        *)
(* argument, or with an argument that is no integer, leaves the users and  *)
(* backups tables as they were and sends no notification to any target.    *)
C24_RejectedCommandInert ==
    [][\A u \in UserIds, argKind \in ArgKinds, delivered \in BOOLEAN :
         \A target_id \in TargetsOf(argKind) :
            ( /\ ~is_admin(u) \/ argKind # "id"
              /\ \/ BanHandled(u, argKind, target_id, DefaultReason, 1,
                               delivered)
                 \/ UnbanHandled(u, argKind, target_id, delivered) )
            => /\ users' = users
               /\ backups' = backups
               /\ ~lastCommand'.notified
               /\ lastCommand'.reply \in {"refused", "usage", "invalid"}]_vars

(* A banned user is in the table and the command handled last was turned   *)
(* down: the ban is still there and nobody was notified.                   *)
C24_Witness ==
    /\ \E t \in DOMAIN users : users[t].is_banned
    /\ lastCommand.command = "unban"
    /\ lastCommand.reply = "refused"
    /\ ~is_admin(lastCommand.by)
    /\ ~lastCommand.notified

(* Call n of send_broadcast has returned its tally. *)
JobReturned(n) == jobs[n].pc \in {"report", "done"}

(* C25  Two broadcasts that run at the same time are independent: a step   *)
(* of one call changes nothing of the other, a call keeps the snapshot it  *)
(* read, and the success + failed a call returns is the size of its own    *)
(* snapshot, in whatever order the steps of the two calls are taken.       *)
C25_JobsIndependent ==
    [][\A n \in JobSlots :
         /\ jobs[n].pc \notin {"idle", "start"}
                => jobs'[n].users = jobs[n].users
         /\ jobs'[n] # jobs[n]
                => \A m \in JobSlots \ {n} : jobs'[m] = jobs[m]
         /\ jobs'[n].pc \in {"report", "done"}
                => jobs'[n].success + jobs'[n].failed = Len(jobs'[n].users)
         /\ jobs'[n].pc = "done"
                => jobs'[n].report
                     = Completed(jobs'[n].success, jobs'[n].failed)]_vars

(* The second call read its snapshot later than the first and has returned *)
(* a tally with a failure over two chunks, while the first call, with a    *)
(* smaller snapshot, still has a send in flight.                           *)
C25_Witness ==
    /\ JobReturned("second")
    /\ Len(jobs["second"].chunks) > 1
    /\ jobs["second"].failed > 0
    /\ jobs["second"].success + jobs["second"].failed
            = Len(jobs["second"].users)
    /\ jobs["first"].pc = "gather"
    /\ jobs["first"].users # <<>>
    /\ Len(jobs["first"].users) < Len(jobs["second"].users)

====
